---- MODULE Spec2Model ----
(***************************************************************************)
(* The accumulator / write-ahead log / chain-proof triad of                *)
(* scm-subjective-continuity:                                              *)
(*   src/accumulator/rsa_accumulator.py   RSAAccumulator                   *)
(*   src/storage/wal_accumulator.py       AccumulatorWAL                   *)
(*   src/accumulator/incremental_proof.py IncrementalChainProof            *)
(* Coroutines of one asyncio event loop are the tasks; a step of the model *)
(* is the code a coroutine runs between two suspension points.             *)
(***************************************************************************)
EXTENDS Integers, Sequences, FiniteSets, TLC

(* ------------------------------ bounds -------------------------------- *)
\* number of coroutines that may be in flight in the event loop
NumTasks == 2
\* total number of calls (initialize / add_scar / remove) ever submitted
MaxOps == 2
\* number of I/O failures the environment may inject
MaxFail == 1
\* number of crashes (each followed by a restart)
MaxCrash == 1
\* calls submitted in the runs of SpecOrder, whose inputs are one scar only
MaxOpsOrder == 4
\* calls that change state submitted in the runs of SpecRead
MaxOpsRead == 2
\* calls of BlackStoneMode.enter, which may overlap
MaxEnter == 2

Tasks == 1..NumTasks

(* -------------------------------- state ------------------------------- *)
VARIABLES
    value,             \* RSAAccumulator.value
    current_sequence,  \* RSAAccumulator.current_sequence
    cached_seq,        \* AccumulatorWAL._cached_seq
    cached_value,      \* AccumulatorWAL._cached_value
    locked,            \* AccumulatorWAL._lock: the task holding it, 0 if free
    waiters,           \* the lock's FIFO queue of waiting tasks
    wal,               \* the content of the log file
    proofs,            \* IncrementalChainProof.proofs
    pc,                \* where each coroutine is suspended
    loc,               \* each coroutine's local variables (and its history)
    ret,               \* history: how each task's last call ended
    issued,            \* history: every proof add has returned, in order
    applied,           \* history: every write to value, in order
    clock,             \* history: counts the calls and returns
    nOps,              \* calls submitted so far
    nFail,             \* I/O failures injected so far
    lastDone,          \* history: the call that returned last
    crash,             \* history: the crashes so far and the last one's tail
    obs,               \* history: the read-only call of the last step, if any
    stone,             \* BlackStoneMode: its class attributes and its callers
    death              \* QuantumDeathProtocol: its fields and its last call

(* ------------------------- accumulator parameters --------------------- *)
\* key.n: a product of two safe primes, small enough for exhaustive search
\* (47 * 83); RSA.generate's modulus in the program
N == 3901
\* (key.p - 1) * (key.q - 1)
phi == 3772
\* self.g = 65537, reduced into the model's modulus (65537 % 3901) so that,
\* as in the program, g < N
g == 3121

\* the byte strings handed to the accumulator: the chain's genesis hash and
\* two scar hashes
genesis == "genesis"
Elements == {"scar_0", "scar_1"}

\* hashlib.sha256(data).digest() read as a big-endian integer, abstracted to
\* a fixed table of small integers
Sha256(data) ==
    CASE data = "genesis" -> 3
      [] data = "scar_0"  -> 4
      [] data = "scar_1"  -> 6

\* element_hash.hex()[:8], abstracted to one symbol per element
HexPrefix(data) ==
    CASE data = "genesis" -> <<"a">>
      [] data = "scar_0"  -> <<"b">>
      [] data = "scar_1"  -> <<"c">>

(* ------------------------------ arithmetic ---------------------------- *)
\* number.isPrime
isPrime(n) == n > 1 /\ \A d \in 2..(n - 1) : n % d # 0

RECURSIVE NextPrime(_)
NextPrime(candidate) ==
    IF isPrime(candidate) THEN candidate ELSE NextPrime(candidate + 1)

\* RSAAccumulator._hash_to_prime: digest, then probe upward to a prime
hash_to_prime(data) == NextPrime(Sha256(data))

\* pow(b, e, n) for e >= 0, by square and multiply
RECURSIVE ModPow(_, _, _)
ModPow(b, e, n) ==
    IF e = 0 THEN 1 % n
    ELSE LET h == ModPow(b, e \div 2, n)
             s == (h * h) % n
         IN  IF e % 2 = 1 THEN (s * (b % n)) % n ELSE s

\* the extended Euclidean algorithm: <<d, x, y>> with a*x + b*y = d = gcd(a, b)
RECURSIVE EGcd(_, _)
EGcd(a, b) ==
    IF b = 0 THEN <<a, 1, 0>>
    ELSE LET r == EGcd(b, a % b)
         IN  <<r[1], r[3], r[2] - (a \div b) * r[3]>>

\* pow(x, -1, m): the inverse of x modulo m (0 stands for ValueError: none)
ModInv(x, m) ==
    LET r == EGcd(x % m, m)
    IN  IF r[1] = 1 THEN r[2] % m ELSE 0

(* --------------------------- text of the log -------------------------- *)
\* the log file is a sequence of characters; "\n" ends a line
NL == "\n"
DigitChars == <<"0", "1", "2", "3", "4", "5", "6", "7", "8", "9">>

\* str(n) for n >= 0
RECURSIVE Digits(_)
Digits(n) ==
    IF n < 10 THEN <<DigitChars[n + 1]>>
    ELSE Append(Digits(n \div 10), DigitChars[(n % 10) + 1])

IsDigit(c) == \E i \in 1..10 : DigitChars[i] = c
DigitVal(c) == (CHOOSE i \in 1..10 : DigitChars[i] = c) - 1

\* int(s) succeeds on a non-empty string of decimal digits
IsInt(s) == Len(s) > 0 /\ \A i \in 1..Len(s) : IsDigit(s[i])

RECURSIVE IntOf(_)
IntOf(s) ==
    IF Len(s) = 0 THEN 0
    ELSE 10 * IntOf(SubSeq(s, 1, Len(s) - 1)) + DigitVal(s[Len(s)])

\* the index of the first sep in s at or after i, 0 when there is none
RECURSIVE Find(_, _, _)
Find(s, sep, i) ==
    IF i > Len(s) THEN 0
    ELSE IF s[i] = sep THEN i
    ELSE Find(s, sep, i + 1)

\* str.split(sep): the fields between separators, empty fields kept
RECURSIVE Split(_, _)
Split(s, sep) ==
    LET k == Find(s, sep, 1)
    IN  IF k = 0 THEN <<s>>
        ELSE <<SubSeq(s, 1, k - 1)>> \o Split(SubSeq(s, k + 1, Len(s)), sep)

\* str.strip(): the only white space of the log's alphabet is the newline
RECURSIVE Strip(_)
Strip(s) ==
    IF Len(s) = 0 THEN s
    ELSE IF s[1] = NL THEN Strip(Tail(s))
    ELSE IF s[Len(s)] = NL THEN Strip(SubSeq(s, 1, Len(s) - 1))
    ELSE s

\* datetime.utcnow().isoformat(): YYYY-MM-DDTHH:MM:SS.ffffff, with its date
\* and hour, its minutes and its seconds each abstracted to one symbol
Timestamp == <<"h", ":", "m", ":", "s">>

OpChars(operation) ==
    IF operation = "ADD" THEN <<"A", "D", "D">>
    ELSE <<"R", "E", "M", "O", "V", "E">>

\* f"{self._cached_seq}:{operation}:{value}:{timestamp}:{scar_id}\n"
Entry(seq, operation, v, scar_id) ==
    Digits(seq) \o <<":">> \o OpChars(operation) \o <<":">> \o Digits(v)
        \o <<":">> \o Timestamp \o <<":">> \o scar_id \o <<NL>>

\* the two header lines _ensure_file writes into a new file
Header == <<"#", "W", NL, "#", "s", ":", "o", NL>>

\* data_lines of recover: the lines that are non-empty and no comment
DataLines(content) ==
    SelectSeq(Split(Strip(content), NL), LAMBDA l : Len(l) > 0 /\ l[1] # "#")

\* Optional[str] None
None == <<"None">>

Raise == [status |-> "raise", seq |-> 0, value |-> 0, scar_id |-> None]

\* AccumulatorWAL.recover on a file with this content: what it returns, or
\* that it raises (IndexError on a missing field, ValueError from int())
recover(content) ==
    LET data_lines == DataLines(content)
    IN  IF Len(data_lines) = 0
        THEN [status |-> "ok", seq |-> 0, value |-> 0, scar_id |-> None]
        ELSE LET last == Split(Strip(data_lines[Len(data_lines)]), ":")
             IN  IF Len(last) < 3 \/ ~IsInt(last[1]) \/ ~IsInt(last[3])
                 THEN Raise
                 ELSE [status |-> "ok",
                       seq |-> IntOf(last[1]),
                       value |-> IntOf(last[3]),
                       scar_id |-> IF Len(last) > 4 THEN last[5] ELSE None]

(* ---------------------------- accumulator ------------------------------ *)
\* an add that multiplies by the prime instead of raising to it
AddValueTimes(v, prime) == (v * prime) % N

\* add: self.value = pow(self.value, prime, self.N)
AddValue(v, prime) == ModPow(v, prime, N)

\* a remove that inverts the prime modulo N instead of modulo phi
RemoveValueInverseModN(v, prime) == ModPow(v, ModInv(prime, N), N)

\* remove: inv = pow(prime, -1, self.phi); self.value = pow(self.value, inv, self.N)
RemoveValue(v, prime) == ModPow(v, ModInv(prime, phi), N)

\* a proof whose witness is read after the update instead of before it
MakeProofWitnessAfter(old_acc, v, prime, seq) ==
    [witness |-> v, accumulator |-> v, element_hash |-> prime,
     sequence |-> seq]

\* add: AccumulatorProof(witness=old_acc, accumulator=self.value,
\*                       element_hash=prime, sequence=self.current_sequence)
MakeProof(old_acc, v, prime, seq) ==
    [witness |-> old_acc, accumulator |-> v, element_hash |-> prime,
     sequence |-> seq]

\* pow(b, e, n) of Python for any integer e: a negative exponent takes the
\* inverse of b modulo n and raises ValueError when b has none
pow(b, e, n) ==
    IF e >= 0 THEN [raised |-> FALSE, val |-> ModPow(b, e, n)]
    ELSE IF ModInv(b, n) = 0 THEN [raised |-> TRUE, val |-> 0]
    ELSE [raised |-> FALSE, val |-> ModPow(ModInv(b, n), 0 - e, n)]

\* a verify that also wants the proof's accumulator to be the value now
verify_call_anchored(proof) ==
    LET computed == pow(proof.witness, proof.element_hash, N)
    IN  IF computed.raised
        THEN [raised |-> FALSE, ok |-> FALSE]
        ELSE [raised |-> FALSE,
              ok |-> computed.val = proof.accumulator
                     /\ proof.accumulator = value]

\* a verify without its try / except: the arithmetic error reaches the caller
verify_call_uncaught(proof) ==
    LET computed == pow(proof.witness, proof.element_hash, N)
    IN  [raised |-> computed.raised,
         ok |-> ~computed.raised /\ computed.val = proof.accumulator]

\* RSAAccumulator.verify as a call: whether it raises and what it returns.
\* try: computed = pow(witness, element_hash, N); return computed ==
\* accumulator; except Exception: return False
verify_call(proof) ==
    LET computed == pow(proof.witness, proof.element_hash, N)
    IN  IF computed.raised
        THEN [raised |-> FALSE, ok |-> FALSE]
        ELSE [raised |-> FALSE, ok |-> computed.val = proof.accumulator]

\* RSAAccumulator.verify: the boolean it returns
verify(proof) == verify_call(proof).ok

\* RSAAccumulator.batch_verify: all(self.verify(p) for p in proofs), which
\* stops at the first proof that fails (or at the first call that raises)
RECURSIVE batch_verify_call(_)
batch_verify_call(ps) ==
    IF Len(ps) = 0 THEN [raised |-> FALSE, ok |-> TRUE]
    ELSE LET r == verify_call(Head(ps))
         IN  IF r.raised \/ ~r.ok THEN r ELSE batch_verify_call(Tail(ps))

\* an initialize without the "or self.g"
SeedValueRaw(cached) == cached

\* an initialize that ignores the recovered value
SeedValueIgnoresLog(cached) == g

\* RSAAccumulator.initialize: self.value = self.wal.current_value or self.g
SeedValue(cached) == IF cached # 0 THEN cached ELSE g

(* ------------------- Black Stone mode and death protocol -------------- *)
\* src/core/black_stone.py BlackStoneMode, src/scm/core/black_stone_quantum.py
\* QuantumDeathProtocol

\* the callers of enter: caller k passes reason k and scar id k
Callers == 1..MaxEnter

\* the callbacks in the order enter awaits them: _ite_halt_callback,
\* _ecl_silence_callback, _chain_callback
CallbackOrder == <<"ite", "ecl", "chain">>
Callbacks == {CallbackOrder[i] : i \in 1..Len(CallbackOrder)}

\* BlackStoneState(): active False, the rest None (0 stands for None)
BlackStoneState == [active |-> FALSE, reason |-> 0, scar_id |-> 0,
                    timestamp |-> 0]

\* history: no activation yet
NoActivation == [caller |-> 0, reason |-> 0, scar_id |-> 0, timestamp |-> 0]

\* the class attributes of BlackStoneMode as its body sets them, nobody
\* calling: _state, the registered callbacks, _test_mode; and the history:
\* how often each callback was awaited, what the chain callback was given,
\* the first activation, whether exit_via_rebirth ran, the time of day
StoneOff ==
    [state |-> BlackStoneState, registered |-> {}, test_mode |-> FALSE,
     pc |-> [c \in Callers |-> "idle"],
     awaited |-> [cb \in Callbacks |-> 0], sent |-> <<>>,
     first |-> NoActivation, exited |-> FALSE, now |-> 0]

\* DEATH_LEVELS
SOFT == 1
HARD == 2
CRITICAL == 3
IRREVERSIBLE == 4

\* range(1, 6): the shares are numbered 1..5
NumShares == 5
Shares == 1..NumShares
\* can_recover: available >= 3
Threshold == 3

\* sum(1 for v in self.share_status.values() if v)
available(share_status) == Cardinality({i \in Shares : share_status[i]})

\* a death level that takes 3 available shares for SOFT
death_level_soft_at_threshold(share_status) ==
    IF available(share_status) >= 3 THEN SOFT
    ELSE IF available(share_status) = 2 THEN CRITICAL
    ELSE IRREVERSIBLE

\* _update_death_level: the level it assigns
death_level_of(share_status) ==
    IF available(share_status) >= 4 THEN SOFT
    ELSE IF available(share_status) = 3 THEN HARD
    ELSE IF available(share_status) = 2 THEN CRITICAL
    ELSE IRREVERSIBLE

\* can_recover()
can_recover(share_status) == available(share_status) >= Threshold

\* history: no call made on the protocol yet
NoCall == [op |-> "none", index |-> 0, raised |-> FALSE,
           status |-> [i \in Shares |-> TRUE], level |-> SOFT]

\* QuantumDeathProtocol.__init__: all shares available, death_level SOFT
DeathNew ==
    [share_status |-> [i \in Shares |-> TRUE],
     death_level |-> death_level_of([i \in Shares |-> TRUE]),
     last |-> NoCall]

(* --------------------------- initial state ---------------------------- *)
\* the accumulator, its log and its chain, with their history
core == <<value, current_sequence, cached_seq, cached_value, locked, waiters,
          wal, proofs, pc, loc, ret, issued, applied, clock, nOps, nFail,
          lastDone, crash>>

\* everything but the observation of the last read-only call
state == <<core, stone, death>>

vars == <<state, obs>>

NoRec == [status |-> "none", seq |-> 0, value |-> 0, scar_id |-> None]

\* history: no add that a remove takes back
NoUndo == [set |-> FALSE, value |-> 0, seq |-> 0]

NoLoc ==
    [op |-> "none", elem |-> "none", prime |-> 0, old_acc |-> 0, arg |-> 0,
     tag |-> "none", entry |-> <<>>, wseq |-> 0, rec |-> NoRec,
     pre_seq |-> 0, pre_value |-> 0, pre_wal |-> <<>>, alone |-> TRUE,
     twice |-> FALSE, begun |-> 0, idx |-> 0, old_seq |-> 0, undo |-> NoUndo]

NoRet ==
    [kind |-> "none", op |-> "none", alone |-> TRUE, twice |-> FALSE,
     pre_seq |-> 0, pre_value |-> 0, post_seq |-> 0, post_value |-> 0,
     wal_same |-> TRUE, result |-> 0, elem |-> "none", undo |-> NoUndo]

NoDone == [op |-> "none", kind |-> "none", alone |-> FALSE]

NoCrash == [n |-> 0, wal |-> <<>>, records |-> 0, seq |-> 0, value |-> 0]

\* no read-only call made: op is the call, arg the proofs handed to it,
\* raised / ok / val what it did and returned, last what the latest recover()
\* since the last write to the log returned, again whether a recover() had
\* one before it since that write
NoObs ==
    [op |-> "none", arg |-> <<>>, raised |-> FALSE, ok |-> FALSE, val |-> 0,
     last |-> NoRec, again |-> FALSE]

\* a step that is no read-only call and writes nothing to the log
NoRead == obs' = [NoObs EXCEPT !.last = obs.last]

\* the log and the fields after IncrementalChainProof.initialize() has
\* completed on a new log: genesis is record 1
GenesisValue == AddValue(g, hash_to_prime(genesis))
GenesisLog == Header \o Entry(1, "ADD", GenesisValue, HexPrefix(genesis))

\* The state after construction on a path that did not exist
\* (RSAAccumulator.__init__, AccumulatorWAL.__init__: _ensure_file writes the
\* header) or on a file that exists and is empty (_ensure_file leaves it as
\* it is), or the state after the chain's initialize() has then completed on
\* a new file.
ChainInit ==
    /\ \/ /\ value = g
          /\ current_sequence = 0
          /\ cached_seq = 0
          /\ cached_value = 0
          /\ wal \in {Header, <<>>}
          /\ applied = <<>>
       \/ /\ value = GenesisValue
          /\ current_sequence = 1
          /\ cached_seq = 1
          /\ cached_value = GenesisValue
          /\ wal = GenesisLog
          /\ applied = <<[op |-> "SEED", x |-> g],
                         [op |-> "ADD", x |-> hash_to_prime(genesis)]>>
    /\ locked = 0
    /\ waiters = <<>>
    /\ proofs = <<>>
    /\ pc = [t \in Tasks |-> "idle"]
    /\ loc = [t \in Tasks |-> NoLoc]
    /\ ret = [t \in Tasks |-> NoRet]
    /\ issued = <<>>
    /\ clock = 0
    /\ nOps = 0
    /\ nFail = 0
    /\ lastDone = NoDone
    /\ crash = NoCrash
    /\ obs = NoObs

\* the chain as above; Black Stone mode is off with nothing registered
\* (the class attributes as the class body sets them) and the death protocol
\* is newly constructed
Init ==
    /\ ChainInit
    /\ stone = StoneOff
    /\ death = DeathNew

AllIdle == \A t \in Tasks : pc[t] = "idle"

\* the coroutine that runs the next call submitted: coroutines are
\* interchangeable, so it is the first one not in flight
Free(t) == pc[t] = "idle" /\ \A x \in Tasks : x < t => pc[x] # "idle"

\* Every caller awaits chain.initialize() before it submits anything else
\* (cognitive_integrator.py:321, sleep_scheduler.py:50, test_accumulator.py:22
\* and :66): no call is submitted while an initialize is in flight, and
\* initialize is submitted when nothing is in flight.
Initializing == \E x \in Tasks : pc[x] # "idle" /\ loc[x].op = "initialize"

\* a call by task t begins: the calls in flight are no longer alone
Marked(t) ==
    [x \in Tasks |->
        IF x # t /\ pc[x] # "idle" THEN [loc[x] EXCEPT !.alone = FALSE]
        ELSE loc[x]]

\* the locals of a call that begins now
NewLoc(t, op, e) ==
    [NoLoc EXCEPT !.op = op, !.elem = e,
                  !.pre_seq = current_sequence, !.pre_value = value,
                  !.pre_wal = wal,
                  !.alone = \A x \in Tasks \ {t} : pc[x] = "idle",
                  !.twice = AllIdle /\ lastDone.op = "initialize"
                            /\ lastDone.kind = "ok" /\ lastDone.alone,
                  !.begun = clock + 1]

\* history: the add(e) that a remove(e) submitted now takes back, when that
\* add was the last call, ran on its own and returned: the value and the
\* sequence from before it
Undone(t, e) ==
    IF /\ AllIdle
       /\ lastDone.op = "add_scar" /\ lastDone.kind = "ok" /\ lastDone.alone
       /\ ret[t].op = "add_scar" /\ ret[t].kind = "ok" /\ ret[t].elem = e
    THEN [set |-> TRUE, value |-> ret[t].pre_value, seq |-> ret[t].pre_seq]
    ELSE NoUndo

\* an append that does not wait for the lock
LockFreeAlways == TRUE

\* asyncio.Lock.acquire returns at once when the lock is free and nobody waits
LockFree == locked = 0 /\ waiters = <<>>

\* AccumulatorWAL.append up to its first suspension: with the lock free it
\* takes the lock, advances _cached_seq and formats the entry; otherwise the
\* coroutine queues on the lock.  cs is _cached_seq at the call, l the
\* caller's locals, base the other coroutines' locals.
AppendStart(t, l, cs, base) ==
    IF LockFree
    THEN /\ locked' = t
         /\ waiters' = waiters
         /\ cached_seq' = cs + 1
         /\ pc' = [pc EXCEPT ![t] = "writing"]
         /\ loc' = [base EXCEPT ![t] =
                [l EXCEPT !.entry = Entry(cs + 1, l.tag, l.arg, HexPrefix(l.elem)),
                          !.wseq = cs + 1]]
    ELSE /\ locked' = locked
         /\ waiters' = Append(waiters, t)
         /\ cached_seq' = cs
         /\ pc' = [pc EXCEPT ![t] = "wait_lock"]
         /\ loc' = [base EXCEPT ![t] = l]

\* the call of task t returns (kind "ok") or raises (kind "error")
Finish(t, kind, l, postSeq, postValue, postWal, result) ==
    /\ ret' = [ret EXCEPT ![t] =
            [kind |-> kind, op |-> l.op, alone |-> l.alone, twice |-> l.twice,
             pre_seq |-> l.pre_seq, pre_value |-> l.pre_value,
             post_seq |-> postSeq, post_value |-> postValue,
             wal_same |-> (postWal = l.pre_wal), result |-> result,
             elem |-> l.elem, undo |-> l.undo]]
    /\ lastDone' = [op |-> l.op, kind |-> kind, alone |-> l.alone]
    /\ clock' = clock + 1

(* ------------------------------- actions ------------------------------ *)
\* RSAAccumulator.add up to the suspension inside wal.append, as called by
\* IncrementalChainProof.add_scar(e)
AddBegin(t, e, lim) ==
    /\ Free(t)
    /\ ~Initializing
    /\ nOps < lim
    /\ LET prime == hash_to_prime(e)
           old_acc == value
           new == AddValue(value, prime)
           l == [NewLoc(t, "add_scar", e) EXCEPT
                    !.prime = prime, !.old_acc = old_acc, !.arg = new,
                    !.tag = "ADD", !.idx = Len(applied) + 1,
                    !.old_seq = current_sequence]
       IN  /\ value' = new
           /\ current_sequence' = current_sequence + 1
           /\ applied' = Append(applied, [op |-> "ADD", x |-> prime])
           /\ AppendStart(t, l, cached_seq, Marked(t))
    /\ nOps' = nOps + 1
    /\ clock' = clock + 1
    /\ NoRead
    /\ UNCHANGED <<stone, death>>
    /\ UNCHANGED <<cached_value, wal, proofs, ret, issued, nFail, lastDone, crash>>

\* RSAAccumulator.remove up to the suspension inside wal.append
RemoveBegin(t, e, lim) ==
    /\ Free(t)
    /\ ~Initializing
    /\ nOps < lim
    /\ LET prime == hash_to_prime(e)
           new == RemoveValue(value, prime)
           l == [NewLoc(t, "remove", e) EXCEPT
                    !.prime = prime, !.old_acc = value, !.arg = new,
                    !.tag = "REMOVE", !.idx = Len(applied) + 1,
                    !.old_seq = current_sequence, !.undo = Undone(t, e)]
       IN  /\ ModInv(prime, phi) # 0
           /\ value' = new
           /\ current_sequence' = current_sequence + 1
           /\ applied' = Append(applied, [op |-> "REMOVE", x |-> prime])
           /\ AppendStart(t, l, cached_seq, Marked(t))
    /\ nOps' = nOps + 1
    /\ clock' = clock + 1
    /\ NoRead
    /\ UNCHANGED <<stone, death>>
    /\ UNCHANGED <<cached_value, wal, proofs, ret, issued, nFail, lastDone, crash>>

\* asyncio.Lock.acquire of a queued coroutine, once the lock is released and
\* it is first in the queue; then append runs on to its first suspension
LockAcquire(t) ==
    /\ pc[t] = "wait_lock"
    /\ locked = 0
    /\ Len(waiters) > 0 /\ Head(waiters) = t
    /\ locked' = t
    /\ waiters' = Tail(waiters)
    /\ cached_seq' = cached_seq + 1
    /\ pc' = [pc EXCEPT ![t] = "writing"]
    /\ loc' = [loc EXCEPT ![t] =
            [loc[t] EXCEPT
                !.entry = Entry(cached_seq + 1, loc[t].tag, loc[t].arg,
                                HexPrefix(loc[t].elem)),
                !.wseq = cached_seq + 1]]
    /\ NoRead
    /\ UNCHANGED <<stone, death>>
    /\ UNCHANGED <<value, current_sequence, cached_value, wal, proofs, ret,
                   issued, applied, clock, nOps, nFail, lastDone, crash>>

\* an append that writes its entry again after the first write
WriteTwice(t) ==
    /\ pc[t] = "writing"
    /\ wal' = wal \o loc[t].entry \o loc[t].entry
    /\ pc' = [pc EXCEPT ![t] = "syncing"]
    /\ obs' = NoObs
    /\ UNCHANGED <<stone, death>>
    /\ UNCHANGED <<value, current_sequence, cached_seq, cached_value, locked,
                   waiters, proofs, loc, ret, issued, applied, clock, nOps,
                   nFail, lastDone, crash>>

\* append: await f.write(entry); await f.flush() on a file opened with 'a'
Write(t) ==
    /\ pc[t] = "writing"
    /\ wal' = wal \o loc[t].entry
    /\ pc' = [pc EXCEPT ![t] = "syncing"]
    /\ obs' = NoObs
    /\ UNCHANGED <<stone, death>>
    /\ UNCHANGED <<value, current_sequence, cached_seq, cached_value, locked,
                   waiters, proofs, loc, ret, issued, applied, clock, nOps,
                   nFail, lastDone, crash>>

\* append: os.fsync returns; self._cached_value = value; the lock is
\* released; back in add the proof is built from the accumulator's fields as
\* they are now, and add_scar retains it
Sync(t) ==
    /\ pc[t] = "syncing"
    /\ cached_value' = loc[t].arg
    /\ locked' = 0
    /\ pc' = [pc EXCEPT ![t] = "idle"]
    /\ LET l == loc[t]
           proof == MakeProof(l.old_acc, value, l.prime, current_sequence)
       IN  /\ IF l.op = "remove"
              THEN UNCHANGED <<proofs, issued>>
              ELSE /\ proofs' = IF l.op = "add_scar"
                                THEN Append(proofs, proof) ELSE proofs
                   /\ issued' = Append(issued,
                        [proof |-> proof, op |-> l.op, elem |-> l.elem,
                         pre |-> l.old_acc, post |-> l.arg, wseq |-> l.wseq,
                         idx |-> l.idx, alone |-> l.alone,
                         begun |-> l.begun, ended |-> clock + 1,
                         pre_seq |-> l.old_seq, value |-> value,
                         valid |-> verify(proof), after_init |-> l.twice])
           /\ Finish(t, "ok", l, current_sequence, value, wal, value)
    /\ NoRead
    /\ UNCHANGED <<stone, death>>
    /\ UNCHANGED <<value, current_sequence, cached_seq, waiters, wal, loc,
                   applied, nOps, nFail, crash>>

\* the exception of a failed append leaves the lock's "async with" and
\* propagates through add / remove (and add_scar / initialize) to the caller
AppendRaises(t) ==
    /\ nFail < MaxFail
    /\ nFail' = nFail + 1
    /\ locked' = 0
    /\ pc' = [pc EXCEPT ![t] = "idle"]
    /\ NoRead
    /\ UNCHANGED <<stone, death>>
    /\ UNCHANGED <<value, current_sequence, cached_seq, cached_value, waiters,
                   proofs, loc, issued, applied, nOps, crash>>

\* append: f.write or f.flush raises (disk full, I/O error); nothing reaches
\* the file
WriteFail(t) ==
    /\ pc[t] = "writing"
    /\ AppendRaises(t)
    /\ Finish(t, "error", loc[t], current_sequence, value, wal, 0)
    /\ UNCHANGED wal

\* append: os.fsync raises after the entry was written to the file
SyncFail(t) ==
    /\ pc[t] = "syncing"
    /\ AppendRaises(t)
    /\ Finish(t, "error", loc[t], current_sequence, value, wal, 0)
    /\ UNCHANGED wal

\* IncrementalChainProof.initialize -> RSAAccumulator.initialize ->
\* AccumulatorWAL.initialize_cache -> recover, up to content = await f.read():
\* the coroutine holds what the parse of that content will give
InitRead(t, lim) ==
    /\ Free(t)
    /\ AllIdle
    /\ nOps < lim
    /\ pc' = [pc EXCEPT ![t] = "init_parsed"]
    /\ loc' = [Marked(t) EXCEPT ![t] =
            [NewLoc(t, "initialize", genesis) EXCEPT !.rec = recover(wal)]]
    /\ nOps' = nOps + 1
    /\ clock' = clock + 1
    /\ NoRead
    /\ UNCHANGED <<stone, death>>
    /\ UNCHANGED <<value, current_sequence, cached_seq, cached_value, locked,
                   waiters, wal, proofs, ret, issued, applied, nFail,
                   lastDone, crash>>

\* after the file is closed recover parses what it read.  When the parse
\* raises, initialize raises.  Otherwise initialize_cache sets the cache,
\* RSAAccumulator.initialize seeds current_sequence and value, and
\* IncrementalChainProof.initialize adds genesis when value == g
InitAssign(t) ==
    /\ pc[t] = "init_parsed"
    /\ LET r == loc[t].rec
           seeded == SeedValue(r.value)
           prime == hash_to_prime(genesis)
           new == AddValue(seeded, prime)
           l == [loc[t] EXCEPT
                    !.prime = prime, !.old_acc = seeded, !.arg = new,
                    !.tag = "ADD", !.idx = Len(applied) + 2,
                    !.old_seq = r.seq]
       IN  IF r.status = "raise"
           THEN /\ pc' = [pc EXCEPT ![t] = "idle"]
                /\ Finish(t, "error", loc[t], current_sequence, value, wal, 0)
                /\ UNCHANGED <<value, current_sequence, cached_seq,
                               cached_value, locked, waiters, loc, applied>>
           ELSE
           /\ cached_value' = r.value
           /\ IF seeded = g
              THEN /\ value' = new
                   /\ current_sequence' = r.seq + 1
                   /\ applied' = applied \o <<[op |-> "SEED", x |-> seeded],
                                              [op |-> "ADD", x |-> prime]>>
                   /\ AppendStart(t, l, r.seq, loc)
                   /\ UNCHANGED <<ret, lastDone, clock>>
              ELSE /\ value' = seeded
                   /\ current_sequence' = r.seq
                   /\ cached_seq' = r.seq
                   /\ applied' = Append(applied, [op |-> "SEED", x |-> seeded])
                   /\ pc' = [pc EXCEPT ![t] = "idle"]
                   /\ Finish(t, "ok", loc[t], r.seq, seeded, wal, 0)
                   /\ UNCHANGED <<locked, waiters, loc>>
    /\ NoRead
    /\ UNCHANGED <<stone, death>>
    /\ UNCHANGED <<wal, proofs, issued, nOps, nFail, crash>>

\* The process is killed and started again on the same log (a new
\* IncrementalChainProof is constructed): the last data line of the file is
\* left as a partial fragment, a proper non-empty prefix without its newline.
Crash(k) ==
    /\ crash.n < MaxCrash
    /\ LET lines == DataLines(wal)
           tail == lines[Len(lines)]
           kept == SubSeq(wal, 1, Len(wal) - k)
           whole == SubSeq(wal, 1, Len(wal) - Len(tail) - 1)
           before == recover(whole)
       IN  /\ Len(lines) > 0
           /\ wal[Len(wal)] = NL
           /\ k \in 2..Len(tail)
           /\ wal' = kept
           /\ crash' = [n |-> crash.n + 1, wal |-> kept,
                        records |-> Len(lines),
                        seq |-> before.seq, value |-> before.value]
    /\ value' = g
    /\ current_sequence' = 0
    /\ cached_seq' = 0
    /\ cached_value' = 0
    /\ locked' = 0
    /\ waiters' = <<>>
    /\ proofs' = <<>>
    /\ pc' = [t \in Tasks |-> "idle"]
    /\ loc' = [t \in Tasks |-> NoLoc]
    /\ applied' = <<>>
    /\ lastDone' = NoDone
    /\ obs' = NoObs
    /\ UNCHANGED <<stone, death>>
    /\ UNCHANGED <<ret, issued, clock, nOps, nFail>>

Next ==
    \/ \E t \in Tasks : \E e \in Elements : AddBegin(t, e, MaxOps)
    \/ \E t \in Tasks : \E e \in Elements \cup {genesis} : RemoveBegin(t, e, MaxOps)
    \/ \E t \in Tasks : LockAcquire(t)
    \/ \E t \in Tasks : Write(t)
    \/ \E t \in Tasks : Sync(t)
    \/ \E t \in Tasks : WriteFail(t)
    \/ \E t \in Tasks : SyncFail(t)
    \/ \E t \in Tasks : InitRead(t, MaxOps)
    \/ \E t \in Tasks : InitAssign(t)

Spec == Init /\ [][Next]_vars

\* the runs of Spec, with crashes and restarts
NextCrash ==
    \/ Next
    \/ \E k \in 2..Len(wal) : Crash(k)

SpecCrash == Init /\ [][NextCrash]_vars

\* the runs in which one scar is added again and again, with initialize and
\* failing writes: longer runs than Spec's, of fewer inputs
NextOrder ==
    \/ \E t \in Tasks : AddBegin(t, "scar_0", MaxOpsOrder)
    \/ \E t \in Tasks : LockAcquire(t)
    \/ \E t \in Tasks : Write(t)
    \/ \E t \in Tasks : Sync(t)
    \/ \E t \in Tasks : WriteFail(t)
    \/ \E t \in Tasks : InitRead(t, MaxOpsOrder)
    \/ \E t \in Tasks : InitAssign(t)

SpecOrder == Init /\ [][NextOrder]_vars

(* --------------------------- read-only calls -------------------------- *)
\* Optional[AccumulatorProof]: <<>> is None, <<p>> the proof p

\* a verify_chain that takes the first retained proof, not the last
verify_chain_call_first(latest_proof) ==
    IF latest_proof = <<>> /\ proofs = <<>>
    THEN [raised |-> FALSE, ok |-> TRUE]
    ELSE LET p == IF latest_proof = <<>> THEN proofs[1] ELSE latest_proof[1]
             r == verify_call(p)
         IN  IF r.raised \/ ~r.ok THEN r
             ELSE [raised |-> FALSE, ok |-> p.accumulator = value]

\* a verify_chain that trusts any proof that verifies
verify_chain_call_unanchored(latest_proof) ==
    IF latest_proof = <<>> /\ proofs = <<>>
    THEN [raised |-> FALSE, ok |-> TRUE]
    ELSE verify_call(IF latest_proof = <<>> THEN proofs[Len(proofs)]
                     ELSE latest_proof[1])

\* IncrementalChainProof.verify_chain: with no proof given it takes the last
\* retained one (True when there is none); the proof must verify and its
\* accumulator must be the accumulator's value
verify_chain_call(latest_proof) ==
    IF latest_proof = <<>> /\ proofs = <<>>
    THEN [raised |-> FALSE, ok |-> TRUE]
    ELSE LET p == IF latest_proof = <<>> THEN proofs[Len(proofs)]
                  ELSE latest_proof[1]
             r == verify_call(p)
         IN  IF r.raised \/ ~r.ok THEN r
             ELSE [raised |-> FALSE, ok |-> p.accumulator = value]

\* proofs nobody issued, as a caller may hand them in: a negative exponent
\* with a witness that has no inverse modulo N (47 divides N), a negative
\* exponent with one that has, the proof two overlapping adds of scar_0 give
\* (it does not verify), and one that verifies trivially on the genesis value
Forged ==
    {[witness |-> 47, accumulator |-> 1, element_hash |-> 0 - 1,
      sequence |-> 0],
     [witness |-> 2, accumulator |-> ModInv(2, N), element_hash |-> 0 - 1,
      sequence |-> 0],
     [witness |-> g,
      accumulator |-> AddValue(AddValue(g, hash_to_prime("scar_0")),
                               hash_to_prime("scar_0")),
      element_hash |-> hash_to_prime("scar_0"), sequence |-> 2],
     [witness |-> GenesisValue, accumulator |-> GenesisValue,
      element_hash |-> 1, sequence |-> 1]}

\* the proofs a caller can hand to a read-only call
ProofInputs == {issued[i].proof : i \in 1..Len(issued)} \cup Forged

\* the lists a caller hands to batch_verify: the proofs the chain retains,
\* as they are or with a proof nobody issued before or after them
BatchInputs ==
    {proofs} \cup {proofs \o <<f>> : f \in Forged}
             \cup {<<f>> \o proofs : f \in Forged}

\* a read-only call returns: what it was given and what it did
Observed(op, arg, r) ==
    /\ obs' = [op |-> op, arg |-> arg, raised |-> r.raised, ok |-> r.ok,
               val |-> 0, last |-> obs.last, again |-> FALSE]
    /\ UNCHANGED state

\* accumulator.verify(p)
Verify(p) == Observed("verify", <<p>>, verify_call(p))

\* accumulator.batch_verify(ps)
BatchVerify(ps) == Observed("batch_verify", ps, batch_verify_call(ps))

\* chain.verify_chain() and chain.verify_chain(p)
VerifyChain(latest_proof) ==
    Observed("verify_chain", latest_proof, verify_chain_call(latest_proof))

\* chain.accumulator_value (and accumulator.value): a read of the field
AccumulatorValue ==
    /\ obs' = [NoObs EXCEPT !.op = "accumulator_value", !.val = value,
                            !.last = obs.last]
    /\ UNCHANGED state

\* a recover() that sets the cache as initialize_cache does
RecoverSetsCache ==
    /\ obs' = [NoObs EXCEPT !.op = "recover", !.last = recover(wal),
                            !.again = (obs.last # NoRec)]
    /\ cached_seq' = recover(wal).seq
    /\ cached_value' = recover(wal).value
    /\ UNCHANGED <<value, current_sequence, locked, waiters, wal, proofs, pc,
                   loc, ret, issued, applied, clock, nOps, nFail, lastDone,
                   crash, stone, death>>

\* wal.recover() called on its own: it reads and parses the file
Recover ==
    /\ obs' = [NoObs EXCEPT !.op = "recover", !.last = recover(wal),
                            !.again = (obs.last # NoRec)]
    /\ UNCHANGED state

\* A read-only call changes nothing, so a second one made right after it
\* sees what the first one saw: the runs make one at a time, except that
\* recover() may follow recover().
OneRead == obs.op = "none"

\* the runs in which the calls that change state are submitted one at a
\* time and a write may fail, with read-only calls between their steps
NextRead ==
    \/ \E t \in Tasks : \E e \in Elements :
            AllIdle /\ AddBegin(t, e, MaxOpsRead)
    \/ \E t \in Tasks : \E e \in Elements \cup {genesis} :
            AllIdle /\ RemoveBegin(t, e, MaxOpsRead)
    \/ \E t \in Tasks : Write(t)
    \/ \E t \in Tasks : Sync(t)
    \/ \E t \in Tasks : WriteFail(t)
    \/ \E t \in Tasks : InitRead(t, MaxOpsRead)
    \/ \E t \in Tasks : InitAssign(t)
    \/ \E p \in ProofInputs : OneRead /\ Verify(p)
    \/ \E ps \in BatchInputs : OneRead /\ BatchVerify(ps)
    \/ \E p \in ProofInputs : OneRead /\ VerifyChain(<<p>>)
    \/ OneRead /\ VerifyChain(<<>>)
    \/ OneRead /\ AccumulatorValue
    \/ obs.op \in {"none", "recover"} /\ Recover

SpecRead == Init /\ [][NextRead]_vars

(* ------------------------- the log file as a file --------------------- *)
\* a construction that opens the file with 'w' whether or not it exists
ensure_file_always_writes(exists, content) == Header

\* AccumulatorWAL._ensure_file: the header is written, with open(path, 'w'),
\* only when no file exists at the path
ensure_file(exists, content) == IF ~exists THEN Header ELSE content

\* A new IncrementalChainProof (RSAAccumulator, AccumulatorWAL) is
\* constructed on the path of the log, which exists, with no call in flight:
\* the objects start from their constructors' values, and the history of
\* the calls starts anew with them
Reopen ==
    /\ AllIdle
    /\ crash.n < MaxCrash
    /\ crash' = [crash EXCEPT !.n = @ + 1]
    /\ wal' = ensure_file(TRUE, wal)
    /\ value' = g
    /\ current_sequence' = 0
    /\ cached_seq' = 0
    /\ cached_value' = 0
    /\ locked' = 0
    /\ waiters' = <<>>
    /\ proofs' = <<>>
    /\ pc' = [t \in Tasks |-> "idle"]
    /\ loc' = [t \in Tasks |-> NoLoc]
    /\ applied' = <<>>
    /\ lastDone' = NoDone
    /\ obs' = NoObs
    /\ ret' = [t \in Tasks |-> NoRet]
    /\ issued' = <<>>
    /\ clock' = 0
    /\ UNCHANGED <<stone, death>>
    /\ UNCHANGED <<nOps, nFail>>

\* the runs in which calls are submitted one at a time, a write may fail,
\* recover() is called between their steps and the objects are
\* constructed again on the log
NextWal ==
    \/ \E t \in Tasks : \E e \in Elements :
            AllIdle /\ AddBegin(t, e, MaxOpsRead)
    \/ \E t \in Tasks : \E e \in Elements \cup {genesis} :
            AllIdle /\ RemoveBegin(t, e, MaxOpsRead)
    \/ \E t \in Tasks : Write(t)
    \/ \E t \in Tasks : Sync(t)
    \/ \E t \in Tasks : WriteFail(t)
    \/ \E t \in Tasks : InitRead(t, MaxOpsRead)
    \/ \E t \in Tasks : InitAssign(t)
    \/ OneRead /\ Recover
    \/ Reopen

SpecWal == Init /\ [][NextWal]_vars

(* --------------------------- Black Stone mode ------------------------- *)
\* the position in CallbackOrder of the first registered callback after
\* position i, 0 when there is none
RECURSIVE NextRegistered(_, _)
NextRegistered(i, registered) ==
    IF i >= Len(CallbackOrder) THEN 0
    ELSE IF CallbackOrder[i + 1] \in registered THEN i + 1
    ELSE NextRegistered(i + 1, registered)

Position(cb) == CHOOSE i \in 1..Len(CallbackOrder) : CallbackOrder[i] = cb

\* enter of caller c after step i of its body: it awaits the next callback
\* that is registered (the chain callback is given reason and scar id);
\* after the last one it returns in test mode and otherwise waits for the
\* operator while the mode is active
Proceed(s, c, i) ==
    LET k == NextRegistered(i, s.registered)
    IN  IF k # 0
        THEN [s EXCEPT !.pc[c] = CallbackOrder[k],
                       !.awaited[CallbackOrder[k]] = @ + 1,
                       !.sent = IF CallbackOrder[k] = "chain"
                                THEN Append(@, <<c, c>>) ELSE @]
        ELSE [s EXCEPT !.pc[c] = IF s.test_mode \/ ~s.state.active
                                 THEN "returned" ELSE "wait"]

\* enter: if cls._state.active
already_active == stone.state.active

\* register_ite / register_ecl / register_chain.  The callbacks are wired
\* before the mode is used: no enter has been called yet.
Register(cb) ==
    /\ \A c \in Callers : stone.pc[c] = "idle"
    /\ cb \notin stone.registered
    /\ stone' = [stone EXCEPT !.registered = @ \cup {cb}]
    /\ UNCHANGED <<core, obs, death>>

\* set_test_mode(True), before the mode is used
SetTestMode ==
    /\ \A c \in Callers : stone.pc[c] = "idle"
    /\ ~stone.test_mode
    /\ stone' = [stone EXCEPT !.test_mode = TRUE]
    /\ UNCHANGED <<core, obs, death>>

\* BlackStoneMode.enter(reason, scar_id) up to its first suspension: it
\* returns at once when the mode is active; otherwise it records the state
\* and awaits the first registered callback
Enter(c) ==
    /\ stone.pc[c] = "idle"
    /\ stone' =
          IF already_active
          THEN [stone EXCEPT !.pc[c] = "ignored", !.now = @ + 1]
          ELSE Proceed(
                 [stone EXCEPT
                     !.state = [active |-> TRUE, reason |-> c, scar_id |-> c,
                                timestamp |-> stone.now + 1],
                     !.now = @ + 1,
                     !.first = IF @ = NoActivation
                               THEN [caller |-> c, reason |-> c,
                                     scar_id |-> c,
                                     timestamp |-> stone.now + 1]
                               ELSE @],
                 c, 0)
    /\ UNCHANGED <<core, obs, death>>

\* the callback that enter awaits returns: enter goes on
CallbackReturns(c) ==
    /\ stone.pc[c] \in Callbacks
    /\ stone' = Proceed(stone, c, Position(stone.pc[c]))
    /\ UNCHANGED <<core, obs, death>>

\* the callback that enter awaits raises: enter raises to its caller
CallbackRaises(c) ==
    /\ stone.pc[c] \in Callbacks
    /\ stone' = [stone EXCEPT !.pc[c] = "raised"]
    /\ UNCHANGED <<core, obs, death>>

\* _wait_for_operator: asyncio.sleep(60) is over and the mode is off
Wake(c) ==
    /\ stone.pc[c] = "wait"
    /\ ~stone.state.active
    /\ stone' = [stone EXCEPT !.pc[c] = "returned"]
    /\ UNCHANGED <<core, obs, death>>

\* exit_via_rebirth: _verify_operator accepts every signature; the state
\* is reset
ExitViaRebirth ==
    /\ stone.first # NoActivation
    /\ stone' = [stone EXCEPT !.state = BlackStoneState, !.exited = TRUE]
    /\ UNCHANGED <<core, obs, death>>

NextStone ==
    \/ \E cb \in Callbacks : Register(cb)
    \/ SetTestMode
    \/ \E c \in Callers : Enter(c)
    \/ \E c \in Callers : CallbackReturns(c)
    \/ \E c \in Callers : CallbackRaises(c)
    \/ \E c \in Callers : Wake(c)
    \/ ExitViaRebirth

SpecStone == Init /\ [][NextStone]_vars

(* ---------------------------- death protocol ------------------------- *)
\* the share indexes a caller may pass: 1..5 and one on either side
Indexes == 0..(NumShares + 1)

\* what a report call leaves: inside 1..5 the share is marked and
\* _update_death_level sets the level (and then logs the event to
\* BLACKSTONE.md, which may raise); outside 1..5 nothing is done
Reported(op, share_index, to, raised) ==
    LET before == [op |-> op, index |-> share_index, raised |-> raised,
                   status |-> death.share_status,
                   level |-> death.death_level]
        marked == [death.share_status EXCEPT ![share_index] = to]
    IN  IF 1 <= share_index /\ share_index <= NumShares
        THEN [share_status |-> marked,
              death_level |-> death_level_of(marked),
              last |-> before]
        ELSE [death EXCEPT !.last = before]

\* report_share_loss(share_index)
ReportShareLoss(share_index, raised) ==
    /\ raised => share_index \in Shares
    /\ death' = Reported("report_share_loss", share_index, FALSE, raised)
    /\ UNCHANGED <<core, obs, stone>>

\* report_share_recovered(share_index)
ReportShareRecovered(share_index, raised) ==
    /\ raised => share_index \in Shares
    /\ death' = Reported("report_share_recovered", share_index, TRUE, raised)
    /\ UNCHANGED <<core, obs, stone>>

NextDeath ==
    \/ \E i \in Indexes, r \in BOOLEAN : ReportShareLoss(i, r)
    \/ \E i \in Indexes, r \in BOOLEAN : ReportShareRecovered(i, r)

SpecDeath == Init /\ [][NextDeath]_vars

(* ------------------------- reading the history ----------------------- *)
\* chain.get_state_proof() on the retained list ps
get_state_proof(ps) == IF Len(ps) = 0 THEN None ELSE ps[Len(ps)]

Issued == 1..Len(issued)

\* the fields of every data line of the log
Records(content) ==
    LET lines == DataLines(content)
    IN  [i \in 1..Len(lines) |-> Split(lines[i], ":")]

\* fields f are a whole record: sequence, tag, value, the three parts of the
\* timestamp and the element identifier
WholeRecord(f) ==
    /\ Len(f) = 7
    /\ IsInt(f[1])
    /\ f[2] \in {OpChars("ADD"), OpChars("REMOVE")}
    /\ IsInt(f[3])

RecordSeq(f) == IntOf(f[1])
RecordValue(f) == IntOf(f[3])

\* the value that results from the transitions ops, in order, starting at v
RECURSIVE Replay(_, _)
Replay(v, ops) ==
    IF Len(ops) = 0 THEN v
    ELSE LET o == Head(ops)
             nv == CASE o.op = "SEED" -> o.x
                     [] o.op = "ADD" -> ModPow(v, o.x, N)
                     [] o.op = "REMOVE" -> ModPow(v, ModInv(o.x, phi), N)
         IN  Replay(nv, Tail(ops))

InAppend == {"wait_lock", "writing", "syncing"}

(* -------------------------------- claims ------------------------------ *)
\* C1 (membership law, P1): the proof returned by an add that ran with no
\* other call in flight verifies: witness ^ element_hash mod N = accumulator.
C1_MembershipLaw ==
    \A i \in Issued : issued[i].alone => verify(issued[i].proof)

C1_Witness ==
    \E i \in Issued :
        /\ issued[i].alone
        /\ issued[i].op = "add_scar"
        /\ issued[i].proof.witness # issued[i].proof.accumulator
        /\ verify(issued[i].proof)

\* C2: every proof ever issued describes its own transition, also under
\* concurrent adds: its witness is the value before that element was added,
\* its accumulator the value after, its sequence the one written to the log,
\* and so it verifies.
C2_ProofDescribesItsTransition ==
    \A i \in Issued :
        /\ issued[i].proof.witness = issued[i].pre
        /\ issued[i].proof.accumulator = issued[i].post
        /\ issued[i].proof.sequence = issued[i].wseq
        /\ verify(issued[i].proof)

\* the runs of C3: only adds, on a new accumulator, all of them returned
OnlyAdds ==
    /\ AllIdle
    /\ Len(issued) > 0
    /\ Len(applied) = Len(issued)
    /\ \A k \in 1..Len(applied) : applied[k].op = "ADD"
    /\ \A i \in Issued : issued[i].op = "add_scar"

\* C3 (sequence monotonicity, P3): after n adds on a new accumulator,
\* sequential or concurrent, the sequences of the n proofs and of the n log
\* records are exactly 1..n.
C3_SequencesAreOneToN ==
    OnlyAdds =>
        LET recs == Records(wal)
        IN  /\ {issued[i].proof.sequence : i \in Issued} = Issued
            /\ Len(recs) = Len(issued)
            /\ \A i \in Issued : RecordSeq(recs[i]) = i

\* C4 (LogWriteFailure): when the append of an add or remove fails, the call
\* raises and value and sequence are what they were before the call.
C4_FailedAppendLeavesStateUnmutated ==
    \A t \in Tasks :
        (ret[t].kind = "error" /\ ret[t].op \in {"add_scar", "remove"}
            /\ ret[t].alone)
        => /\ ret[t].post_value = ret[t].pre_value
           /\ ret[t].post_seq = ret[t].pre_seq

\* C5 (crash-tail tolerance, P5): on a log of at least two data records
\* whose last line a crash cut to a fragment, recover() returns the sequence
\* and value of the second-to-last record; it does not raise.
C5_CrashTailTolerance ==
    \A t \in Tasks :
        (pc[t] = "init_parsed" /\ crash.n > 0 /\ crash.records >= 2
            /\ wal = crash.wal)
        => /\ loc[t].rec.status = "ok"
           /\ loc[t].rec.seq = crash.seq
           /\ loc[t].rec.value = crash.value

\* C6: between an add's or remove's update of value and sequence and the
\* completion of its append, no step changes value or sequence.
C6_NoRaceOnValue ==
    [][\A t \in Tasks :
          (pc[t] \in InAppend /\ pc'[t] \in InAppend)
          => (value' = value /\ current_sequence' = current_sequence)]_vars

\* C7 (ordering guarantee): when add A returned before add B was submitted,
\* A's sequence is less than B's and the value after B results from the
\* transitions up to A's, then those up to B's, in order.
C7_OrderingGuarantee ==
    \A i \in Issued : \A j \in Issued :
        issued[i].ended < issued[j].begun
        => /\ issued[i].proof.sequence < issued[j].proof.sequence
           /\ issued[i].idx < issued[j].idx
           /\ issued[j].post = Replay(g, SubSeq(applied, 1, issued[j].idx))

\* C8 (single writer): at most one append is inside the write/flush/sync
\* section, it holds the lock, and the log's data lines are whole records of
\* strictly increasing sequence.
C8_SingleWriter ==
    /\ Cardinality({t \in Tasks : pc[t] \in {"writing", "syncing"}}) <= 1
    /\ \A t \in Tasks : pc[t] \in {"writing", "syncing"} => locked = t
    /\ LET recs == Records(wal)
       IN  /\ \A i \in 1..Len(recs) : WholeRecord(recs[i])
           /\ \A i \in 1..(Len(recs) - 1) :
                  RecordSeq(recs[i]) < RecordSeq(recs[i + 1])

C8_Witness ==
    /\ AllIdle
    /\ Len(issued) = 2
    /\ ~issued[1].alone /\ ~issued[2].alone
    /\ Len(Records(wal)) >= 2
    /\ C8_SingleWriter

\* C9 (cache of the tail): with no call in flight, the accumulator's
\* sequence and value are those of the last data record of the log, or 0 and
\* g when the log has none.
C9_CacheOfTail ==
    AllIdle =>
        LET recs == Records(wal)
        IN  IF Len(recs) = 0
            THEN current_sequence = 0 /\ value = g
            ELSE /\ current_sequence = RecordSeq(recs[Len(recs)])
                 /\ value = RecordValue(recs[Len(recs)])

\* C10 (genesis idempotence, P7): an initialize() that follows a completed
\* initialize() at once returns and leaves sequence, value and the log as
\* they were.
C10_GenesisIdempotence ==
    \A t \in Tasks :
        (ret[t].op = "initialize" /\ ret[t].twice)
        => /\ ret[t].kind = "ok"
           /\ ret[t].post_seq = ret[t].pre_seq
           /\ ret[t].post_value = ret[t].pre_value
           /\ ret[t].wal_same

\* the first initialize() added genesis to a new log, the second nothing
C10_Witness ==
    /\ \E t \in Tasks : ret[t].op = "initialize" /\ ret[t].twice
                        /\ ret[t].kind = "ok"
    /\ Len(applied) = 3
    /\ wal = GenesisLog
    /\ current_sequence = 1

\* the positions of the log's records that add genesis
GenesisAdds(recs) ==
    {i \in 1..Len(recs) :
        /\ Len(recs[i]) = 7
        /\ recs[i][2] = OpChars("ADD")
        /\ recs[i][7] = HexPrefix(genesis)}

\* C11 (INITIALIZED is terminal): once genesis has been added to the chain,
\* no later initialize() adds it again, whatever add_scar, remove and
\* initialize calls came between: the log never holds a second record that
\* adds genesis.
C11_InitializedIsTerminal ==
    Cardinality(GenesisAdds(Records(wal))) <= 1

\* C12: after an add_scar that ran on its own has returned, the proof it
\* returned verifies and verify_chain() with no argument returns true.
C12_AddScarThenVerifyChain ==
    (/\ obs.op = "verify_chain" /\ obs.arg = <<>>
     /\ AllIdle
     /\ lastDone.op = "add_scar" /\ lastDone.kind = "ok" /\ lastDone.alone)
    => /\ verify(issued[Len(issued)].proof)
       /\ proofs[Len(proofs)] = issued[Len(issued)].proof
       /\ ~obs.raised
       /\ obs.ok

\* on an initialised chain two scars were added, and verify_chain() ran
C12_Witness ==
    /\ obs.op = "verify_chain" /\ obs.arg = <<>> /\ obs.ok
    /\ AllIdle
    /\ lastDone.op = "add_scar" /\ lastDone.kind = "ok"
    /\ Len(proofs) = 2
    /\ SubSeq(wal, 1, Len(GenesisLog)) = GenesisLog
    /\ Len(Records(wal)) = 3

\* C13: verify_chain(p) is true exactly when verify(p) holds and
\* p.accumulator is the accumulator's value now; with no proof given it
\* judges the last retained proof and is true when none is retained; it
\* never raises, and rejects a proof issued before the value changed.
C13_VerifyChainAnchored ==
    obs.op = "verify_chain" =>
        /\ ~obs.raised
        /\ IF obs.arg = <<>>
           THEN obs.ok = (\/ proofs = <<>>
                          \/ /\ verify(proofs[Len(proofs)])
                             /\ proofs[Len(proofs)].accumulator = value)
           ELSE obs.ok = (/\ verify(obs.arg[1])
                          /\ obs.arg[1].accumulator = value)
        /\ \A i \in Issued :
               (obs.arg = <<issued[i].proof>>
                    /\ issued[i].proof.accumulator # value)
               => ~obs.ok

\* the proof of the first of two adds, which verifies, is rejected
C13_Witness ==
    /\ obs.op = "verify_chain"
    /\ Len(issued) = 2
    /\ obs.arg = <<issued[1].proof>>
    /\ verify(issued[1].proof)
    /\ issued[1].proof.accumulator # value
    /\ ~obs.ok

C19_SequentialAdd ==
    \A i \in Issued :
        issued[i].alone =>
            LET p == hash_to_prime(issued[i].elem)
                v == issued[i].pre
                new == ModPow(v, p, N)
            IN  /\ issued[i].value = new
                /\ issued[i].post = new
                /\ issued[i].proof =
                       [witness |-> v, accumulator |-> new,
                        element_hash |-> p,
                        sequence |-> issued[i].pre_seq + 1]

\* two scars added one after the other to the initialised chain
C19_Witness ==
    /\ AllIdle
    /\ Len(issued) = 2
    /\ issued[1].alone /\ issued[2].alone
    /\ issued[1].elem = "scar_0" /\ issued[2].elem = "scar_1"
    /\ issued[2].pre = issued[1].value
    /\ issued[2].proof.sequence = 3
    /\ value = issued[2].value
    /\ current_sequence = 3

\* C15 (recovery idempotence, P4): a recover() that follows another with no
\* write to the log between them returns what that one returned, and a
\* recover() changes neither the log nor any field in memory.
C15_RecoveryIdempotence ==
    [][obs'.op = "recover" =>
          /\ UNCHANGED state
          /\ obs.last # NoRec => obs'.last = obs.last]_vars

\* recover() ran on a log of two records, a remove began, recover() ran again
C15_Witness ==
    /\ obs.op = "recover" /\ obs.again
    /\ obs.last.status = "ok"
    /\ obs.last.seq = 2
    /\ Len(Records(wal)) = 2
    /\ \E t \in Tasks : pc[t] = "writing" /\ loc[t].op = "remove"
    /\ current_sequence = 3

\* the list ps in the order f, a permutation of its positions
Reordered(ps, f) == [k \in 1..Len(ps) |-> ps[f[k]]]

\* C16 (independence, P2): verify of a proof an add returned gives what it
\* gave when the proof was issued (true for an add on its own), whatever
\* was added, removed or verified since;
\* batch_verify of a list is the conjunction of verify over its proofs, in
\* every order of the list, and does not raise.
C16_Independence ==
    /\ obs.op = "verify" =>
           \A i \in Issued :
               obs.arg = <<issued[i].proof>> =>
                   /\ obs.ok = issued[i].valid
                   /\ issued[i].alone => obs.ok
    /\ obs.op = "batch_verify" =>
           /\ ~obs.raised
           /\ obs.ok = (\A k \in 1..Len(obs.arg) : verify(obs.arg[k]))
           /\ \A f \in Permutations(1..Len(obs.arg)) :
                  batch_verify_call(Reordered(obs.arg, f)).ok = obs.ok

\* two different scars were added; batch_verify of both proofs is true
\* although the first proof's accumulator is no longer the value
C16_Witness ==
    /\ obs.op = "batch_verify" /\ obs.ok
    /\ Len(proofs) = 2 /\ obs.arg = proofs
    /\ Len(issued) = 2
    /\ issued[1].elem # issued[2].elem
    /\ proofs[1].accumulator # value
    /\ AllIdle

\* the records of the log whose append has completed its sync: all of them
\* but the last one while its writer still waits for os.fsync
SyncedRecords ==
    LET recs == Records(wal)
    IN  IF \E t \in Tasks : pc[t] = "syncing"
        THEN SubSeq(recs, 1, Len(recs) - 1)
        ELSE recs

\* C17 (durability precedes observability): a read of the accumulator's
\* value returns g or the value of a record that has been written to the
\* log and synced: no value is seen before its record is durable.
C17_DurabilityPrecedesObservability ==
    obs.op = "accumulator_value" =>
        \/ obs.val = g
        \/ LET recs == SyncedRecords
           IN  \E i \in 1..Len(recs) : RecordValue(recs[i]) = obs.val

\* what recover() returns for a log without data records
EmptyRecovery == [status |-> "ok", seq |-> 0, value |-> 0, scar_id |-> None]

\* the log has no data record: header and comment lines only, or nothing
NoData(content) == Len(DataLines(content)) = 0

\* C18 (empty-log recovery), as stated: recover() on a log without data
\* records returns sequence 0 and value g.
C18_EmptyLogRecovery ==
    (obs.op = "recover" /\ NoData(wal))
    => /\ obs.last.status = "ok"
       /\ obs.last.seq = 0
       /\ obs.last.value = g

\* C18, amended: recover() on a log without data records returns sequence 0
\* and value 0 (and no scar id); RSAAccumulator.initialize() turns that into
\* sequence 0 and value g, from which the chain's initialize() adds genesis.
C18_EmptyLogRecoveryAmended ==
    /\ (obs.op = "recover" /\ NoData(wal)) => obs.last = EmptyRecovery
    /\ \A t \in Tasks :
           (loc[t].op = "initialize" /\ NoData(loc[t].pre_wal))
           => /\ loc[t].rec = EmptyRecovery
              /\ pc[t] # "init_parsed" =>
                     /\ loc[t].old_seq = 0
                     /\ loc[t].old_acc = g
                     /\ loc[t].arg = GenesisValue

\* initialize() ran on an empty file and adds genesis to g; a recover()
\* made before the record is written still finds no data
C18_Witness ==
    /\ \E t \in Tasks :
           /\ loc[t].op = "initialize" /\ pc[t] = "writing"
           /\ loc[t].pre_wal = <<>>
           /\ loc[t].old_acc = g
    /\ wal = <<>>
    /\ value = GenesisValue
    /\ obs.op = "recover"
    /\ obs.last = EmptyRecovery

\* the arithmetic of verify fails on one of the proofs ps
ArithmeticFailure(ps) ==
    \E k \in 1..Len(ps) : pow(ps[k].witness, ps[k].element_hash, N).raised

\* C20: verify, and batch_verify with it, never raises and changes neither
\* the accumulator, the log nor the chain, whatever proof it is given; when
\* the arithmetic fails it returns false.
C20_VerifyNeverRaises ==
    [][obs'.op \in {"verify", "batch_verify"} =>
          /\ UNCHANGED state
          /\ ~obs'.raised
          /\ ArithmeticFailure(obs'.arg) => ~obs'.ok]_vars

\* verify was given a negative exponent and a witness that has no inverse
\* modulo N, while an add was in flight
C20_Witness ==
    /\ obs.op = "verify"
    /\ obs.arg[1].element_hash < 0
    /\ ModInv(obs.arg[1].witness, N) = 0
    /\ ArithmeticFailure(obs.arg)
    /\ ~obs.raised /\ ~obs.ok
    /\ \E t \in Tasks : pc[t] = "syncing"

\* C21 (no double activation): while no exit has intervened, an enter()
\* made when the mode is active leaves reason, scar id and timestamp as the
\* first enter recorded them and awaits nothing, so that no callback is
\* awaited twice and, once every enter call made is over and one of them
\* found the mode active, each registered callback has been awaited exactly
\* once.
C21_NoDoubleActivation ==
    (~stone.exited /\ stone.first # NoActivation) =>
        /\ stone.state = [active |-> TRUE,
                          reason |-> stone.first.reason,
                          scar_id |-> stone.first.scar_id,
                          timestamp |-> stone.first.timestamp]
        /\ \A c \in Callers \ {stone.first.caller} :
               stone.pc[c] \in {"idle", "ignored"}
        /\ \A cb \in Callbacks : stone.awaited[cb] <= 1
        /\ ( /\ \A c \in Callers : stone.pc[c] \notin Callbacks
             /\ \E c \in Callers : stone.pc[c] = "ignored" ) =>
               \A cb \in stone.registered : stone.awaited[cb] = 1

\* C22 (death level): after any sequence of report_share_loss and
\* report_share_recovered calls the death level is the one of the number
\* of available shares (4 or 5 SOFT, 3 HARD, 2 CRITICAL, 0 or 1
\* IRREVERSIBLE), a call with an index outside 1..5 has changed nothing,
\* and can_recover() is true exactly when at least 3 shares are available,
\* which is exactly when the level is SOFT or HARD.
C22_DeathLevel ==
    LET n == Cardinality({i \in DOMAIN death.share_status :
                              death.share_status[i]})
    IN  /\ DOMAIN death.share_status = 1..5
        /\ n \in {4, 5} => death.death_level = SOFT
        /\ n = 3 => death.death_level = HARD
        /\ n = 2 => death.death_level = CRITICAL
        /\ n \in {0, 1} => death.death_level = IRREVERSIBLE
        /\ (death.last.op # "none" /\ death.last.index \notin 1..5) =>
               /\ death.share_status = death.last.status
               /\ death.death_level = death.last.level
        /\ can_recover(death.share_status) <=> n >= 3
        /\ can_recover(death.share_status) <=>
               death.death_level \in {SOFT, HARD}

\* three shares were lost, the last loss failed to log, and share 1 is back:
\* three shares available at level HARD; one more loss and a call with
\* index 6 leave two shares at level CRITICAL
C22_Witness ==
    /\ death.last.op = "report_share_recovered"
    /\ death.last.index = 6
    /\ death.last.level = CRITICAL
    /\ death.death_level = CRITICAL
    /\ ~can_recover(death.share_status)
    /\ death.share_status = [i \in Shares |-> i \in {1, 2}]

\* C23 (genesis is the first accumulated element): whenever the log holds
\* a data record, its first record has sequence 1 and is the ADD of the
\* genesis hash, and no other record has sequence 1, in whatever order
\* initialize() and add_scar() were called.
C23_GenesisIsFirst ==
    LET recs == Records(wal)
    IN  Len(recs) >= 1 =>
            /\ WholeRecord(recs[1])
            /\ RecordSeq(recs[1]) = 1
            /\ 1 \in GenesisAdds(recs)
            /\ \A i \in 2..Len(recs) :
                   WholeRecord(recs[i]) => RecordSeq(recs[i]) # 1

\* the element whose identifier a record carries
ElementOf(id) ==
    CHOOSE e \in Elements \cup {genesis} : HexPrefix(e) = id

\* record f results from value prev by the transition it names
Follows(prev, f) ==
    LET p == hash_to_prime(ElementOf(f[7]))
    IN  /\ WholeRecord(f)
        /\ \E e \in Elements \cup {genesis} : HexPrefix(e) = f[7]
        /\ f[2] = OpChars("ADD") => RecordValue(f) = ModPow(prev, p, N)
        /\ f[2] = OpChars("REMOVE") =>
               RecordValue(f) = ModPow(prev, ModInv(p, phi), N)

\* C24 (replay invariant): the log's data records form a chain that can be
\* replayed from g: the value of each record is the value of the record
\* before it (g for the first) raised mod N to the prime of its element for
\* an ADD, to that prime's inverse modulo the totient for a REMOVE; and with
\* no call in flight the accumulator's value is the result of the replay,
\* the value of the last record (g when there is none).
C24_ReplayInvariant ==
    LET recs == Records(wal)
    IN  /\ \A i \in 1..Len(recs) :
               Follows(IF i = 1 THEN g ELSE RecordValue(recs[i - 1]), recs[i])
        /\ AllIdle =>
               value = IF Len(recs) = 0 THEN g
                       ELSE RecordValue(recs[Len(recs)])

\* sequence and value of the last whole record of a log, 0 and g when it
\* has none
LastWhole(content) ==
    LET recs == Records(content)
        whole == {i \in 1..Len(recs) : WholeRecord(recs[i])}
    IN  IF whole = {} THEN [seq |-> 0, value |-> g]
        ELSE LET m == CHOOSE i \in whole : \A j \in whole : j <= i
             IN  [seq |-> RecordSeq(recs[m]), value |-> RecordValue(recs[m])]

\* C25 (restart continuation): RSAAccumulator.initialize() on a log whose
\* last whole record is (K, v) leaves sequence K and value v in memory (0
\* and g when the log has no record), and the add that comes next, the add
\* of genesis by the chain's initialize or an add_scar that runs on its own,
\* is recorded in the log and proved with sequence K + 1 and witness v.
C25_RestartContinuation ==
    /\ \A t \in Tasks :
           /\ (loc[t].op = "initialize" /\ pc[t] = "init_parsed") =>
                  loc[t].rec.status = "ok"
           /\ (loc[t].op = "initialize" /\ pc[t] = "writing") =>
                  /\ loc[t].old_seq = LastWhole(wal).seq
                  /\ loc[t].old_acc = LastWhole(wal).value
           /\ (/\ AllIdle /\ lastDone.op = "initialize" /\ lastDone.kind = "ok"
               /\ ret[t].op = "initialize" /\ ret[t].wal_same) =>
                  /\ current_sequence = LastWhole(wal).seq
                  /\ value = LastWhole(wal).value
    /\ \A i \in Issued :
           (issued[i].op = "initialize"
               \/ (issued[i].after_init /\ issued[i].alone)) =>
               /\ issued[i].proof.sequence = issued[i].pre_seq + 1
               /\ issued[i].wseq = issued[i].pre_seq + 1
               /\ issued[i].proof.witness = issued[i].pre
               /\ crash.n = 0 =>
                      \E j \in 1..Len(Records(wal)) :
                          /\ RecordSeq(Records(wal)[j]) = issued[i].pre_seq + 1
                          /\ RecordValue(Records(wal)[j]) = issued[i].post

\* C26 (append/recover round trip): when an append has succeeded and
\* nothing was written after it, recover() returns the sequence written in
\* that record, the value appended and the element identifier appended.
C26_AppendRecoverRoundTrip ==
    \A t \in Tasks :
        (/\ obs.op = "recover"
         /\ AllIdle
         /\ ret[t].kind = "ok" /\ lastDone.kind = "ok"
         /\ Len(loc[t].entry) > 0
         /\ wal = loc[t].pre_wal \o loc[t].entry)
        => /\ obs.last.status = "ok"
           /\ obs.last.seq = loc[t].wseq
           /\ obs.last.value = loc[t].arg
           /\ obs.last.scar_id = HexPrefix(loc[t].elem)

\* the add_scar calls that have returned a proof, in the order they returned
CompletedAddScars(all) == SelectSeq(all, LAMBDA r : r.op = "add_scar")

\* C27 (retained proofs): every step leaves the retained list as it was or
\* longer by one proof at its end; the list holds the proofs of the
\* completed add_scar calls, one each, in the order their records were
\* written; the sequence numbers of its proofs are strictly increasing; and
\* get_state_proof() returns its last element, None when it is empty.
C27_RetainedProofs ==
    [][LET done == CompletedAddScars(issued')
       IN  /\ Len(proofs') \in {Len(proofs), Len(proofs) + 1}
           /\ SubSeq(proofs', 1, Len(proofs)) = proofs
           /\ Len(proofs') = Len(done)
           /\ \A i \in 1..Len(done) : proofs'[i] = done[i].proof
           /\ \A i \in 1..Len(done) : \A j \in 1..Len(done) :
                  i < j => /\ done[i].wseq < done[j].wseq
                           /\ proofs'[i].sequence < proofs'[j].sequence
           /\ get_state_proof(proofs') =
                  IF Len(done) = 0 THEN None ELSE done[Len(done)].proof
      ]_vars

\* C28 (one transition, one record): no step adds more than one record to
\* the log, and when an add or a remove returns, exactly one of the records
\* appended since the call began has the sequence the call gave the
\* accumulator, one more than the sequence it found; that record is
\* tagged ADD for an add and REMOVE for a remove, and carries the value that
\* results from the call's transition and the element's identifier.  A call
\* that ran on its own leaves the sequence one higher and the log one record
\* longer than it found them.
C28_OneTransitionOneRecord ==
    [][/\ Len(Records(wal')) \in {Len(Records(wal)), Len(Records(wal)) + 1}
       /\ \A t \in Tasks :
              (pc[t] = "syncing" /\ pc'[t] = "idle" /\ ret'[t].kind = "ok") =>
                  LET l == loc[t]
                      recs == Records(wal')
                      before == Len(Records(l.pre_wal))
                      mine == {i \in (before + 1)..Len(recs) :
                                   RecordSeq(recs[i]) = l.old_seq + 1}
                  IN  /\ Cardinality(mine) = 1
                      /\ \A i \in mine :
                             /\ recs[i][2] = OpChars(IF l.op = "remove"
                                                     THEN "REMOVE" ELSE "ADD")
                             /\ RecordValue(recs[i]) =
                                    Replay(g, SubSeq(applied, 1, l.idx))
                             /\ recs[i][7] = HexPrefix(l.elem)
                      /\ l.alone => /\ current_sequence' = l.old_seq + 1
                                    /\ Len(recs) = before + 1
      ]_vars

\* an add_scar and then a remove have returned on a new chain: two records,
\* the first tagged ADD and the second REMOVE, and sequence 2
C28_Witness ==
    /\ AllIdle
    /\ lastDone.op = "remove" /\ lastDone.kind = "ok" /\ lastDone.alone
    /\ Len(issued) = 1 /\ issued[1].op = "add_scar" /\ issued[1].alone
    /\ current_sequence = 2
    /\ Len(Records(wal)) = 2
    /\ Records(wal)[1][2] = OpChars("ADD")
    /\ Records(wal)[2][2] = OpChars("REMOVE")
    /\ RecordSeq(Records(wal)[2]) = 2

\* C29 (append-only log): after every step the content the file had is a
\* prefix of the content it has, whether the step is a construction on the
\* existing file, a step of an append, a recover() or an initialize; and
\* recover() never returns a header line as data: it returns the fields of
\* the last line that is no comment, and (0, 0, None) when there is none.
C29_AppendOnly ==
    [][/\ Len(wal) <= Len(wal')
       /\ SubSeq(wal', 1, Len(wal)) = wal
       /\ obs'.op = "recover" =>
              LET recs == Records(wal')
              IN  /\ obs'.last.status = "ok"
                  /\ Len(recs) = 0 =>
                         /\ obs'.last.seq = 0
                         /\ obs'.last.value = 0
                         /\ obs'.last.scar_id = None
                  /\ Len(recs) > 0 =>
                         /\ recs[Len(recs)][1][1] # "#"
                         /\ obs'.last.seq = RecordSeq(recs[Len(recs)])
                         /\ obs'.last.value = RecordValue(recs[Len(recs)])
      ]_vars

\* the objects were constructed again on a log that held the header and two
\* records, and recover() then returned the fields of the second record
C29_Witness ==
    /\ crash.n = 1
    /\ Len(wal) > Len(Header)
    /\ SubSeq(wal, 1, Len(Header)) = Header
    /\ Len(Records(wal)) = 2
    /\ obs.op = "recover"
    /\ obs.last.status = "ok"
    /\ obs.last.seq = 2
    /\ current_sequence = 0

\* C30 (no sequence gap after a failed append): the sequence fields of the
\* log's data records are consecutive, each one more than the one before
\* it, also when an append failed between two of them; and with no call in
\* flight the cached sequence and value of the WAL are those of the last
\* record in the file.
C30_NoSequenceGap ==
    LET recs == Records(wal)
    IN  /\ \A i \in 1..(Len(recs) - 1) :
               RecordSeq(recs[i + 1]) = RecordSeq(recs[i]) + 1
        /\ (AllIdle /\ Len(recs) > 0) =>
               /\ cached_seq = RecordSeq(recs[Len(recs)])
               /\ cached_value = RecordValue(recs[Len(recs)])

\* C31 (appending after a crash tail): when the log ended with a partial
\* line without its newline and, after the restart, initialize() has run,
\* the append of the next successful add (the add of genesis by that
\* initialize, or an add_scar that follows it) leaves a last data line that
\* is the entry it wrote, a whole record, and recover() on the log then
\* returns that add's sequence and value.
C31_AppendAfterCrashTail ==
    \A t \in Tasks :
        (/\ crash.n > 0
         /\ AllIdle
         /\ lastDone.kind = "ok" /\ lastDone.op = loc[t].op
         /\ \/ loc[t].op = "initialize"
            \/ loc[t].op = "add_scar" /\ loc[t].twice
         /\ Len(loc[t].entry) > 0
         /\ Len(loc[t].pre_wal) > 0
         /\ loc[t].pre_wal[Len(loc[t].pre_wal)] # NL
         /\ wal = loc[t].pre_wal \o loc[t].entry)
        => LET lines == DataLines(wal)
               recs == Records(wal)
           IN  /\ Len(lines) > 0
               /\ lines[Len(lines)] \o <<NL>> = loc[t].entry
               /\ WholeRecord(recs[Len(recs)])
               /\ recover(wal).status = "ok"
               /\ recover(wal).seq = loc[t].wseq
               /\ recover(wal).value = loc[t].arg

\* the chain was initialised (genesis was added to g first), nothing was
\* removed and no append failed
InitialisedAddsOnly ==
    /\ Len(applied) >= 2
    /\ applied[1] = [op |-> "SEED", x |-> g]
    /\ applied[2] = [op |-> "ADD", x |-> hash_to_prime(genesis)]
    /\ \A k \in 1..Len(applied) : applied[k].op # "REMOVE"
    /\ nFail = 0

\* C32 (no spurious divergence): on an initialised chain on which nothing
\* was removed and no append failed, verify_chain() with no argument returns
\* true and does not raise, also when it is called while an add_scar is
\* suspended inside its append.
C32_NoSpuriousDivergence ==
    (obs.op = "verify_chain" /\ obs.arg = <<>> /\ InitialisedAddsOnly)
    => (~obs.raised /\ obs.ok)

====
